---- MODULE Spec2Model ----
(***************************************************************************)
(* gojson: lexer (package lexer), token model (package token), recursive   *)
(* descent parser (package parser) and linter (package linter).            *)
(*                                                                         *)
(* Text is a sequence of one-character strings.  The input string is fixed *)
(* for a whole parse; the model fixes it chunk by chunk, just before the   *)
(* lexer first looks at the part in question (action Reveal), so that all  *)
(* inputs that share the prefix the parser has seen share their states.    *)
(***************************************************************************)
EXTENDS Integers, Sequences, FiniteSets, TLC

\* Largest number of chunks an input is made of.
MaxChunks == 5

(***************************** characters *********************************)
\* The byte 0: also what readChar stores in ch at the end of the input.
NUL == "NUL"
QUOTE == "\""
BACKSLASH == "\\"
NEWLINE == "\n"

DigitChars == <<"0", "1", "2", "3", "4", "5", "6", "7", "8", "9">>
Digits == {DigitChars[i] : i \in 1..10}
DigitVal(c) == (CHOOSE i \in 1..10 : DigitChars[i] = c) - 1

LowerCase == {"a", "b", "c", "d", "e", "f", "g", "h", "i", "j", "k", "l", "m",
              "n", "o", "p", "q", "r", "s", "t", "u", "v", "w", "x", "y", "z"}
UpperCase == {"A", "B", "C", "D", "E", "F", "G", "H", "I", "J", "K", "L", "M",
              "N", "O", "P", "Q", "R", "S", "T", "U", "V", "W", "X", "Y", "Z"}

\* 2^63, the first integer beyond the int64 range
MaxInt64Digits1 ==
  <<"9", "2", "2", "3", "3", "7", "2", "0", "3", "6",
    "8", "5", "4", "7", "7", "5", "8", "0", "8">>

\* The pieces inputs are made of: the structural characters; keys with
\* their colon (one on a new line, one empty); a member with its comma; the
\* start of an array with an element and its comma; strings (one empty, one
\* holding two escaped quotes); numbers (integer, float, malformed float,
\* integer beyond 64 bits) and keywords (one misspelt), each with the space
\* that ends it; a character the lexer does not know; the byte 0; the two
\* bytes of a character beyond ASCII (e with an acute accent, in UTF-8).
Chunks ==
  { <<"{">>, <<"}">>, <<"[">>, <<"]">>, <<",">>,
    <<QUOTE, "a", QUOTE, ":">>,
    <<NEWLINE, " ", QUOTE, "b", QUOTE, ":">>,
    <<QUOTE, QUOTE, ":">>,
    <<QUOTE, "a", QUOTE, ":", "1", ",">>,
    <<"[", "1", ",">>,
    <<QUOTE, "a", QUOTE>>, <<QUOTE, QUOTE>>,
    <<QUOTE, BACKSLASH, QUOTE, BACKSLASH, QUOTE, QUOTE>>,
    <<"1", " ">>, <<"1", ".", "0", " ">>, <<"1", "e", " ">>,
    MaxInt64Digits1 \o <<" ">>,
    <<"t", "r", "u", "e", " ">>, <<"n", "u", "l", "l", " ">>,
    <<"F", "a", "l", "s", "e", " ">>,
    <<"'">>, <<NUL>>, <<"0xC3", "0xA9">> }

\* The pieces the part of an input that no step reads is made of.
TailChunks == { <<"}">>, <<"1", " ">> }

(******************************* token ************************************)
TokenTypes == {"EOF", "ILLEGAL", "BEGIN_ARRAY", "END_ARRAY", "BEGIN_OBJECT",
               "END_OBJECT", "NAME_SEPARATOR", "VALUE_SEPARATOR", "WHITESPACE",
               "STRING", "NUMBER", "TRUE", "FALSE", "NULL"}

\* string(ch) of a byte: the UTF-8 text of the code point of that number,
\* which is the byte itself below 128 and two bytes from 128 on.
string(ch) ==
  CASE ch = "0xC3" -> <<"0xC3", "0x83">>
    [] ch = "0xA9" -> <<"0xC2", "0xA9">>
    [] OTHER -> <<ch>>

NewToken(tokenType, ch, ln, c) ==
  [Type |-> tokenType, Value |-> string(ch), Line |-> ln, Column |-> c]

NewTokenWithValue(tokenType, val, ln, c) ==
  [Type |-> tokenType, Value |-> val, Line |-> ln, Column |-> c]

\* The zero value of token.Token: the parser's fields before NewParser
\* has filled them.
ZeroToken == [Type |-> "EOF", Value |-> <<>>, Line |-> 0, Column |-> 0]

\* LookupIdent as it would be if the keywords were matched whatever the
\* case of their first letter.
LookupIdent_AnyCase(ident) ==
  CASE ident \in {<<"t", "r", "u", "e">>, <<"T", "r", "u", "e">>} -> "TRUE"
    [] ident \in {<<"f", "a", "l", "s", "e">>, <<"F", "a", "l", "s", "e">>} -> "FALSE"
    [] ident \in {<<"n", "u", "l", "l">>, <<"N", "u", "l", "l">>} -> "NULL"
    [] OTHER -> "ILLEGAL"

LookupIdent(ident) ==
  CASE ident = <<"t", "r", "u", "e">> -> "TRUE"
    [] ident = <<"f", "a", "l", "s", "e">> -> "FALSE"
    [] ident = <<"n", "u", "l", "l">> -> "NULL"
    [] OTHER -> "ILLEGAL"

(******************************* lexer ************************************)
\* A Lexer is [position, readPosition, ch, line, column]; its input is the
\* variable input.  Positions are 0-based as in the source.

isDigit(ch) == ch \in Digits

isLetter(ch) == ch \in LowerCase \cup UpperCase \cup {"_"}

readChar(inp, l) ==
  LET c == IF l.readPosition >= Len(inp) THEN NUL ELSE inp[l.readPosition + 1]
  IN  [position     |-> l.readPosition,
       readPosition |-> l.readPosition + 1,
       ch           |-> c,
       line         |-> IF c = NEWLINE THEN l.line + 1 ELSE l.line,
       column       |-> IF c = NEWLINE THEN 0 ELSE l.column + 1]

NewLexer(inp) ==
  readChar(inp, [position |-> 0, readPosition |-> 0, ch |-> NUL,
                 line |-> 1, column |-> 0])

RECURSIVE skipWhitespace(_, _)
skipWhitespace(inp, l) ==
  IF l.ch \in {" ", "\t", NEWLINE, "\r"}
  THEN skipWhitespace(inp, readChar(inp, l))
  ELSE l

\* input[lo:hi]
Slice(inp, lo, hi) == SubSeq(inp, lo + 1, hi)

RECURSIVE scanNumber(_, _)
scanNumber(inp, l) ==
  IF isDigit(l.ch) \/ l.ch \in {".", "-", "+", "e", "E"}
  THEN scanNumber(inp, readChar(inp, l))
  ELSE l

\* readNumber, readString and readIdentifier give the lexer after the scan
\* (l) and the slice returned (s).
readNumber(inp, l) ==
  LET after == scanNumber(inp, l)
  IN  [l |-> after, s |-> Slice(inp, l.position, after.position)]

RECURSIVE scanString(_, _)
scanString(inp, l) ==
  LET n == readChar(inp, l)
  IN  IF n.ch = QUOTE \/ n.ch = NUL THEN n ELSE scanString(inp, n)

readString(inp, l) ==
  LET after == scanString(inp, l)
  IN  [l |-> after, s |-> Slice(inp, l.position + 1, after.position)]

RECURSIVE scanIdentifier(_, _)
scanIdentifier(inp, l) ==
  IF isLetter(l.ch) THEN scanIdentifier(inp, readChar(inp, l)) ELSE l

readIdentifier(inp, l) ==
  LET after == scanIdentifier(inp, l)
  IN  [l |-> after, s |-> Slice(inp, l.position, after.position)]

\* Go leaves open whether the operands l.line and l.column of a call such as
\* NewTokenWithValue(t, l.readString(), l.line, l.column) are read before or
\* after the call l.readString() in the same argument list.  A build reads
\* them after the call ("calls_first") or before it ("operands_first").  An
\* identifier is read by a statement of its own, before the token is made:
\* its line and column are those after the scan in every build.
ArgOrders == {"calls_first", "operands_first"}

\* The lexer whose line and column a multi-character token records.
PosLexer(order, before, after) ==
  IF order = "calls_first" THEN after ELSE before

\* NextToken gives the lexer after the call (l) and the token returned (tok).
NextToken(inp, l0, order) ==
  LET l == skipWhitespace(inp, l0)
      single(t) == [l   |-> readChar(inp, l),
                    tok |-> NewToken(t, l.ch, l.line, l.column)]
  IN  CASE l.ch = "{" -> single("BEGIN_OBJECT")
        [] l.ch = "}" -> single("END_OBJECT")
        [] l.ch = "[" -> single("BEGIN_ARRAY")
        [] l.ch = "]" -> single("END_ARRAY")
        [] l.ch = ":" -> single("NAME_SEPARATOR")
        [] l.ch = "," -> single("VALUE_SEPARATOR")
        [] l.ch = QUOTE ->
             LET r == readString(inp, l)
                 p == PosLexer(order, l, r.l)
             IN  [l   |-> readChar(inp, r.l),
                  tok |-> NewTokenWithValue("STRING", r.s, p.line, p.column)]
        [] l.ch = NUL ->
             [l   |-> readChar(inp, l),
              tok |-> NewTokenWithValue("EOF", <<>>, l.line, l.column)]
        [] isDigit(l.ch) \/ l.ch = "-" ->
             LET r == readNumber(inp, l)
                 p == PosLexer(order, l, r.l)
             IN  [l   |-> r.l,
                  tok |-> NewTokenWithValue("NUMBER", r.s, p.line, p.column)]
        [] isLetter(l.ch) ->
             LET r == readIdentifier(inp, l)
             IN  [l   |-> r.l,
                  tok |-> NewTokenWithValue(LookupIdent(r.s), r.s, r.l.line, r.l.column)]
        [] OTHER -> single("ILLEGAL")

(************************** strconv and fmt *******************************)
\* Numbers are kept in decimal, as digit sequences, so that the 64-bit range
\* is the real one.  An int64 is [neg, mag]: mag has no leading zero.
\* A float64 is [neg, digs, dp] with value 0.digs * 10^dp: digs has neither a
\* leading nor a trailing zero and is empty for zero (strconv's decimal).
\* A decimal of at most 15 significant digits is a float64's shortest form.

MaxInt64Digits ==
  <<"9", "2", "2", "3", "3", "7", "2", "0", "3", "6",
    "8", "5", "4", "7", "7", "5", "8", "0", "7">>

RECURSIVE StripLeadingZeros(_)
StripLeadingZeros(ds) ==
  IF ds # <<>> /\ Head(ds) = "0" THEN StripLeadingZeros(Tail(ds)) ELSE ds

RECURSIVE StripTrailingZeros(_)
StripTrailingZeros(ds) ==
  IF ds # <<>> /\ ds[Len(ds)] = "0"
  THEN StripTrailingZeros(SubSeq(ds, 1, Len(ds) - 1))
  ELSE ds

\* a <= b for digit sequences without leading zeros
RECURSIVE DigitsLeqSameLen(_, _)
DigitsLeqSameLen(a, b) ==
  IF a = <<>> THEN TRUE
  ELSE IF DigitVal(Head(a)) # DigitVal(Head(b))
       THEN DigitVal(Head(a)) < DigitVal(Head(b))
       ELSE DigitsLeqSameLen(Tail(a), Tail(b))

DigitsLeq(a, b) ==
  \/ Len(a) < Len(b)
  \/ Len(a) = Len(b) /\ DigitsLeqSameLen(a, b)

AllDigits(s) == \A i \in 1..Len(s) : s[i] \in Digits

\* ParseInt as it would be if a literal beyond the range wrapped around, as
\* an unchecked 64-bit accumulation does: 2^63 becomes -2^63.
ParseInt_Wrapping(s) ==
  LET signed == s # <<>> /\ s[1] \in {"+", "-"}
      body   == IF signed THEN Tail(s) ELSE s
      neg    == signed /\ s[1] = "-"
      mag    == LET z == StripLeadingZeros(body) IN IF z = <<>> THEN <<"0">> ELSE z
      wraps  == ~DigitsLeq(mag, MaxInt64Digits)
  IN  IF body = <<>> \/ ~AllDigits(body)
      THEN [ok |-> FALSE, neg |-> FALSE, mag |-> <<"0">>]
      ELSE [ok |-> TRUE, neg |-> (neg \/ wraps) /\ mag # <<"0">>, mag |-> mag]

\* strconv.ParseInt(s, 10, 64): [ok, neg, mag]
ParseInt(s) ==
  LET signed == s # <<>> /\ s[1] \in {"+", "-"}
      body   == IF signed THEN Tail(s) ELSE s
      neg    == signed /\ s[1] = "-"
      mag    == LET z == StripLeadingZeros(body) IN IF z = <<>> THEN <<"0">> ELSE z
      \* 2^63 - 1, and 2^63 for a negative number (last digit 8)
      inRange == \/ DigitsLeq(mag, MaxInt64Digits)
                 \/ neg /\ mag = [MaxInt64Digits EXCEPT ![19] = "8"]
  IN  IF body = <<>> \/ ~AllDigits(body) \/ ~inRange
      THEN [ok |-> FALSE, neg |-> FALSE, mag |-> <<"0">>]
      ELSE [ok |-> TRUE, neg |-> neg /\ mag # <<"0">>, mag |-> mag]

\* strconv's readFloat, mantissa: scan s from index i; digs are the digits
\* kept (leading zeros dropped), dp the decimal point's place among them.
RECURSIVE readMantissa(_, _, _, _, _, _)
readMantissa(s, i, sawdot, sawdigits, digs, dp) ==
  IF i > Len(s)
  THEN [i |-> i, sawdot |-> sawdot, sawdigits |-> sawdigits, digs |-> digs, dp |-> dp]
  ELSE IF s[i] = "." /\ ~sawdot
       THEN readMantissa(s, i + 1, TRUE, sawdigits, digs, Len(digs))
  ELSE IF s[i] \in Digits
       THEN IF s[i] = "0" /\ digs = <<>>
            THEN readMantissa(s, i + 1, sawdot, TRUE, digs, dp - 1)
            ELSE readMantissa(s, i + 1, sawdot, TRUE, Append(digs, s[i]), dp)
  ELSE [i |-> i, sawdot |-> sawdot, sawdigits |-> sawdigits, digs |-> digs, dp |-> dp]

\* strconv's readFloat, exponent digits from index i: e stops growing at 10000
RECURSIVE readExponent(_, _, _)
readExponent(s, i, e) ==
  IF i <= Len(s) /\ s[i] \in Digits
  THEN readExponent(s, i + 1, IF e < 10000 THEN e * 10 + DigitVal(s[i]) ELSE e)
  ELSE [i |-> i, e |-> e]

\* strconv.ParseFloat(s, 64) on text made of digits, '.', '+', '-', 'e', 'E':
\* [ok, neg, digs, dp].  A decimal point beyond 310 is out of range (an
\* error), one below -330 gives zero (no error), as in decimal.floatBits.
ParseFloat(s) ==
  LET bad    == [ok |-> FALSE, neg |-> FALSE, digs |-> <<>>, dp |-> 0]
      signed == s # <<>> /\ s[1] \in {"+", "-"}
      neg    == signed /\ s[1] = "-"
      m      == readMantissa(s, IF signed THEN 2 ELSE 1, FALSE, FALSE, <<>>, 0)
      mdp    == IF m.sawdot THEN m.dp ELSE Len(m.digs)
      hasExp == m.i <= Len(s) /\ s[m.i] \in {"e", "E"}
      esigned == m.i + 1 <= Len(s) /\ s[m.i + 1] \in {"+", "-"}
      efrom  == IF esigned THEN m.i + 2 ELSE m.i + 1
      x      == readExponent(s, efrom, 0)
      endAt  == IF hasExp THEN x.i ELSE m.i
      dp     == IF hasExp
                THEN (IF esigned /\ s[m.i + 1] = "-" THEN mdp - x.e ELSE mdp + x.e)
                ELSE mdp
      digs   == StripTrailingZeros(m.digs)
  IN  IF ~m.sawdigits \/ (hasExp /\ x.i = efrom) \/ endAt # Len(s) + 1
      THEN bad
      ELSE IF digs = <<>> THEN [ok |-> TRUE, neg |-> neg, digs |-> <<>>, dp |-> 0]
      ELSE IF dp > 310 THEN bad
      ELSE IF dp < -330 THEN [ok |-> TRUE, neg |-> neg, digs |-> <<>>, dp |-> 0]
      ELSE [ok |-> TRUE, neg |-> neg, digs |-> digs, dp |-> dp]

RECURSIVE NatDigits(_)
NatDigits(n) ==
  IF n < 10 THEN <<DigitChars[n + 1]>>
  ELSE Append(NatDigits(n \div 10), DigitChars[(n % 10) + 1])

Zeros(n) == [i \in 1..n |-> "0"]

Sign(neg) == IF neg THEN <<"-">> ELSE <<>>

\* fmt's %v of an int64
FormatInt(v) == Sign(v.neg) \o v.mag

\* strconv's %e with the shortest digits: d.ddde+XX
fmtE(v) ==
  LET nd == Len(v.digs)
      ex == IF nd = 0 THEN 0 ELSE v.dp - 1
      ax == IF ex < 0 THEN 0 - ex ELSE ex
  IN  Sign(v.neg)
      \o (IF nd = 0 THEN <<"0">> ELSE <<v.digs[1]>>)
      \o (IF nd > 1 THEN <<".">> \o Tail(v.digs) ELSE <<>>)
      \o <<"e", IF ex < 0 THEN "-" ELSE "+">>
      \o (IF ax < 10 THEN <<"0">> ELSE <<>>) \o NatDigits(ax)

\* strconv's %f with the shortest digits
fmtF(v) ==
  LET nd   == Len(v.digs)
      prec == IF nd > v.dp THEN nd - v.dp ELSE 0
      dig(j) == IF 1 <= j /\ j <= nd THEN v.digs[j] ELSE "0"
  IN  Sign(v.neg)
      \o (IF v.dp > 0 THEN [j \in 1..v.dp |-> dig(j)] ELSE <<"0">>)
      \o (IF prec > 0 THEN <<".">> \o [i \in 1..prec |-> dig(v.dp + i)] ELSE <<>>)

\* fmt's %v of a float64: strconv's %g with the shortest digits, which is %e
\* when the decimal exponent is below -4 or at least 6, and %f otherwise
FormatFloat(v) ==
  LET ex == v.dp - 1
  IN  IF ex < -4 \/ ex >= 6 THEN fmtE(v) ELSE fmtF(v)

(***************************** value tree *********************************)
\* What an interface{} of the tree holds.  A JsonObject is a Go map (m); ord
\* is a history of it, the keys in the order of their first insertion, which
\* the map itself does not keep.  isnil marks the nil map and the nil slice.
StringV(s) == [t |-> "string", s |-> s]
IntV(p) == [t |-> "int", neg |-> p.neg, mag |-> p.mag]
FloatV(p) == [t |-> "float", neg |-> p.neg, digs |-> p.digs, dp |-> p.dp]
BoolV(b) == [t |-> "bool", b |-> b]
NullV == [t |-> "null"]
EmptyObject == [t |-> "object", isnil |-> FALSE, m |-> <<>>, ord |-> <<>>]
NilObject == [t |-> "object", isnil |-> TRUE, m |-> <<>>, ord |-> <<>>]
EmptyArray == [t |-> "array", isnil |-> FALSE, elems |-> <<>>]
NilArray == [t |-> "array", isnil |-> TRUE, elems |-> <<>>]

\* MapStore as it would be if a key already in the object kept its value.
MapStore_FirstWins(obj, key, value) ==
  IF key \in DOMAIN obj.m
  THEN obj
  ELSE [obj EXCEPT
          !.m   = [k \in (DOMAIN obj.m) \cup {key} |-> IF k = key THEN value ELSE obj.m[k]],
          !.ord = Append(obj.ord, key)]

\* object[key] = value
MapStore(obj, key, value) ==
  [obj EXCEPT
     !.m   = [k \in (DOMAIN obj.m) \cup {key} |-> IF k = key THEN value ELSE obj.m[k]],
     !.ord = IF key \in DOMAIN obj.m THEN obj.ord ELSE Append(obj.ord, key)]

(******************************* state ************************************)
VARIABLES
  input,      \* Lexer.input, as far as it is fixed
  closed,     \* whether input is the whole input
  nChunks,    \* number of chunks input is made of
  argOrder,   \* the build's order of evaluation (ArgOrders)
  l,          \* the Lexer
  curToken,   \* Parser.curToken
  peekToken,  \* Parser.peekToken
  errors,     \* Parser.errors
  stack,      \* the calls of parseObject and parseArray in progress
  pc,         \* where the caller of the parser is
  result,     \* what Parse returned
  lintOut,    \* the string Lint returned
  lintErr,    \* whether Lint returned an error
  round,      \* 1: the input's parse; 2: the parse of Lint's output
  first       \* in round 2: the input of round 1, whether it was whole, its tree

vars == <<input, closed, nChunks, argOrder, l, curToken, peekToken, errors,
          stack, pc, result, lintOut, lintErr, round, first>>

lexVars == <<l, curToken, peekToken>>
inVars == <<input, closed, nChunks, argOrder>>
outVars == <<result, lintOut, lintErr, round, first>>

\* A call of parseObject or parseArray: its local variables and the place
\* it is at.  value and err are what its call of parseValue returned.
NewFrame(fn) ==
  [fn |-> fn, pc |-> "begin", object |-> EmptyObject, array |-> EmptyArray,
   key |-> <<>>, value |-> NullV, err |-> FALSE]

Top == stack[Len(stack)]

SetTop(f) == stack' = [stack EXCEPT ![Len(stack)] = f]

\* The lexer can give its next token from the part of the input that is fixed.
CanLex == closed \/ NextToken(input, l, argOrder).l.position < Len(input)

\* nextToken as it would be if the current token were taken from the lexer
\* instead of from the lookahead, which skips the lookahead token.
nextToken_SkipsLookahead ==
  LET r == NextToken(input, l, argOrder)
  IN  /\ CanLex
      /\ curToken' = r.tok
      /\ peekToken' = r.tok
      /\ l' = r.l

nextToken ==
  LET r == NextToken(input, l, argOrder)
  IN  /\ CanLex
      /\ curToken' = peekToken
      /\ peekToken' = r.tok
      /\ l' = r.l

curTokenIs(t) == curToken.Type = t

\* A diagnostic: the message's fixed text, and the line, column and text
\* it is built from.
Diag(msg, tok, got) ==
  [msg |-> msg, line |-> tok.Line, column |-> tok.Column, got |-> got]

addError(d) == errors' = Append(errors, d)

\* return v, from the call on top of the stack
Return(v) ==
  IF Len(stack) = 1
  THEN /\ stack' = <<>>
       /\ result' = v
       /\ pc' = "parsed"
  ELSE /\ stack' = [SubSeq(stack, 1, Len(stack) - 1) EXCEPT
                      ![Len(stack) - 1].value = v, ![Len(stack) - 1].err = FALSE]
       /\ UNCHANGED <<result, pc>>

(******************************* parser ***********************************)
Init ==
  /\ \/ input \in Chunks /\ closed = FALSE /\ nChunks = 1
     \/ input = <<>> /\ closed = TRUE /\ nChunks = 0
  /\ argOrder \in ArgOrders
  /\ l = NewLexer(input)
  /\ curToken = ZeroToken
  /\ peekToken = ZeroToken
  /\ errors = <<>>
  /\ stack = <<>>
  /\ pc = "new1"
  /\ result = NullV
  /\ lintOut = <<>>
  /\ lintErr = FALSE
  /\ round = 1
  /\ first = [input |-> <<>>, closed |-> FALSE, tree |-> NullV]

\* NewParser: the two calls of nextToken
NewParser ==
  /\ pc \in {"new1", "new2"}
  /\ nextToken
  /\ pc' = IF pc = "new1" THEN "new2" ELSE "ready"
  /\ UNCHANGED <<inVars, errors, stack, outVars>>

Parse ==
  /\ pc = "ready"
  /\ pc' = "parsing"
  /\ stack' = <<NewFrame("parseObject")>>
  /\ UNCHANGED <<inVars, lexVars, errors, outVars>>

Running(fn, at) ==
  /\ pc = "parsing"
  /\ Top.fn = fn
  /\ Top.pc = at

\* parseNumber: the value, and the diagnostics it adds
parseNumber ==
  LET numStr == curToken.Value
  IN  IF \E i \in 1..Len(numStr) : numStr[i] \in {".", "e", "E"}
      THEN LET p == ParseFloat(numStr)
           IN  IF p.ok THEN [value |-> FloatV(p), errs |-> <<>>]
               ELSE [value |-> NullV,
                     errs  |-> <<Diag("could not parse as float", curToken, numStr)>>]
      ELSE LET p == ParseInt(numStr)
           IN  IF p.ok THEN [value |-> IntV(p), errs |-> <<>>]
               ELSE [value |-> NullV,
                     errs  |-> <<Diag("could not parse as integer", curToken, numStr)>>]

parseBoolean == curToken.Type = "TRUE"

\* value, err := p.parseValue(), called by the call on top of the stack, which
\* goes on at "got"; a parseObject or parseArray it calls is pushed.
parseValue ==
  LET got(v, e) == SetTop([Top EXCEPT !.value = v, !.err = e, !.pc = "got"])
      call(fn)  == stack' = Append([stack EXCEPT ![Len(stack)].pc = "got"], NewFrame(fn))
  IN  CASE curToken.Type = "STRING" ->
             got(StringV(curToken.Value), FALSE) /\ UNCHANGED errors
        [] curToken.Type = "NUMBER" ->
             got(parseNumber.value, FALSE) /\ errors' = errors \o parseNumber.errs
        [] curToken.Type \in {"TRUE", "FALSE"} ->
             got(BoolV(parseBoolean), FALSE) /\ UNCHANGED errors
        [] curToken.Type = "NULL" ->
             got(NullV, FALSE) /\ UNCHANGED errors
        [] curToken.Type = "BEGIN_OBJECT" ->
             call("parseObject") /\ UNCHANGED errors
        [] curToken.Type = "BEGIN_ARRAY" ->
             call("parseArray") /\ UNCHANGED errors
        [] OTHER ->
             got(NullV, TRUE)
             /\ addError(Diag("unexpected token", curToken, curToken.Value))

\* parseObjectKey: the key, and the diagnostics it adds
parseObjectKey ==
  IF curToken.Type # "STRING"
  THEN [key  |-> <<>>,
        errs |-> <<Diag("expected string for key", curToken, curToken.Value)>>]
  ELSE [key |-> curToken.Value, errs |-> <<>>]

\* ObjBegin as it would be if the first token were not checked.
ObjBegin_NoCheck ==
  /\ Running("parseObject", "begin")
  /\ nextToken
  /\ SetTop([Top EXCEPT !.pc = "loop"])
  /\ UNCHANGED <<inVars, errors, outVars, pc>>

\* parseObject, lines 53-60
ObjBegin ==
  /\ Running("parseObject", "begin")
  /\ IF ~curTokenIs("BEGIN_OBJECT")
     THEN /\ addError(Diag("expected '{'", curToken, curToken.Value))
          /\ Return(NilObject)
          /\ UNCHANGED lexVars
     ELSE /\ nextToken
          /\ SetTop([Top EXCEPT !.pc = "loop"])
          /\ UNCHANGED <<errors, result, pc>>
  /\ UNCHANGED <<inVars, lintOut, lintErr, round, first>>

\* parseObject, lines 63-72 and, when the loop ends, 100-105
ObjLoop ==
  /\ Running("parseObject", "loop")
  /\ IF curTokenIs("END_OBJECT")
     THEN Return(Top.object) /\ UNCHANGED <<errors, lexVars>>
     ELSE IF curTokenIs("EOF")
     THEN /\ addError(Diag("expected '}'", curToken, curToken.Value))
          /\ Return(NilObject)
          /\ UNCHANGED lexVars
     ELSE IF parseObjectKey.key = <<>>
     THEN /\ errors' = errors \o parseObjectKey.errs
          /\ Return(NilObject)
          /\ UNCHANGED lexVars
     ELSE IF peekToken.Type # "NAME_SEPARATOR"
     THEN /\ addError(Diag("expected next token to be", curToken,
                           <<"NAME_SEPARATOR", peekToken.Type>>))
          /\ Return(NilObject)
          /\ UNCHANGED lexVars
     ELSE /\ nextToken
          /\ SetTop([Top EXCEPT !.key = parseObjectKey.key, !.pc = "colon"])
          /\ UNCHANGED <<errors, result, pc>>
  /\ UNCHANGED <<inVars, lintOut, lintErr, round, first>>

\* parseObject, line 75
ObjColon ==
  /\ Running("parseObject", "colon")
  /\ nextToken
  /\ SetTop([Top EXCEPT !.pc = "value"])
  /\ UNCHANGED <<inVars, errors, outVars, pc>>

\* parseObject, line 78
ObjValue ==
  /\ Running("parseObject", "value")
  /\ parseValue
  /\ UNCHANGED <<inVars, lexVars, outVars, pc>>

\* parseObject, lines 79-86
ObjGot ==
  /\ Running("parseObject", "got")
  /\ IF Top.err
     THEN Return(NilObject) /\ UNCHANGED lexVars
     ELSE /\ nextToken
          /\ SetTop([Top EXCEPT !.object = MapStore(Top.object, Top.key, Top.value),
                                !.pc = "sep"])
          /\ UNCHANGED <<result, pc>>
  /\ UNCHANGED <<inVars, errors, lintOut, lintErr, round, first>>

\* ObjSep as it would be if the check of the trailing comma were left out.
ObjSep_NoTrailingCheck ==
  /\ Running("parseObject", "sep")
  /\ IF curTokenIs("VALUE_SEPARATOR")
     THEN nextToken
     ELSE UNCHANGED lexVars
  /\ SetTop([Top EXCEPT !.pc = "loop"])
  /\ UNCHANGED <<inVars, errors, outVars, pc>>

\* parseObject, lines 89-96
ObjSep ==
  /\ Running("parseObject", "sep")
  /\ IF curTokenIs("VALUE_SEPARATOR")
     THEN IF peekToken.Type = "END_OBJECT"
          THEN /\ addError(Diag("No ',' before '}'", curToken, <<>>))
               /\ Return(NilObject)
               /\ UNCHANGED lexVars
          ELSE /\ nextToken
               /\ SetTop([Top EXCEPT !.pc = "loop"])
               /\ UNCHANGED <<errors, result, pc>>
     ELSE /\ SetTop([Top EXCEPT !.pc = "loop"])
          /\ UNCHANGED <<errors, result, pc, lexVars>>
  /\ UNCHANGED <<inVars, lintOut, lintErr, round, first>>

\* parseArray, lines 113-119
ArrBegin ==
  /\ Running("parseArray", "begin")
  /\ IF ~curTokenIs("BEGIN_ARRAY")
     THEN /\ addError(Diag("expected '['", curToken, curToken.Value))
          /\ Return(NilArray)
          /\ UNCHANGED lexVars
     ELSE /\ nextToken
          /\ SetTop([Top EXCEPT !.pc = "loop"])
          /\ UNCHANGED <<errors, result, pc>>
  /\ UNCHANGED <<inVars, lintOut, lintErr, round, first>>

\* parseArray, lines 122-124 and, when the loop ends, 141-145
ArrLoop ==
  /\ Running("parseArray", "loop")
  /\ IF curTokenIs("END_ARRAY")
     THEN Return(Top.array) /\ UNCHANGED errors
     ELSE parseValue /\ UNCHANGED <<result, pc>>
  /\ UNCHANGED <<inVars, lexVars, lintOut, lintErr, round, first>>

\* ArrGot as it would be if parseArray did not move past the element it
\* has added.
ArrGot_NoAdvance ==
  /\ Running("parseArray", "got")
  /\ IF Top.err
     THEN Return(NilArray)
     ELSE /\ SetTop([Top EXCEPT !.array.elems = Append(Top.array.elems, Top.value),
                                !.pc = "sep"])
          /\ UNCHANGED <<result, pc>>
  /\ UNCHANGED <<inVars, lexVars, errors, lintOut, lintErr, round, first>>

\* parseArray, lines 125-132
ArrGot ==
  /\ Running("parseArray", "got")
  /\ IF Top.err
     THEN Return(NilArray) /\ UNCHANGED lexVars
     ELSE /\ nextToken
          /\ SetTop([Top EXCEPT !.array.elems = Append(Top.array.elems, Top.value),
                                !.pc = "sep"])
          /\ UNCHANGED <<result, pc>>
  /\ UNCHANGED <<inVars, errors, lintOut, lintErr, round, first>>

\* ArrSep as it would be if parseArray rejected a trailing comma the way
\* parseObject does.
ArrSep_RejectTrailing ==
  /\ Running("parseArray", "sep")
  /\ IF curTokenIs("VALUE_SEPARATOR")
     THEN IF peekToken.Type = "END_ARRAY"
          THEN /\ addError(Diag("No ',' before ']'", curToken, <<>>))
               /\ Return(NilArray)
               /\ UNCHANGED lexVars
          ELSE /\ nextToken
               /\ SetTop([Top EXCEPT !.pc = "loop"])
               /\ UNCHANGED <<errors, result, pc>>
     ELSE /\ SetTop([Top EXCEPT !.pc = "loop"])
          /\ UNCHANGED <<errors, result, pc, lexVars>>
  /\ UNCHANGED <<inVars, lintOut, lintErr, round, first>>

\* parseArray, lines 135-137
ArrSep ==
  /\ Running("parseArray", "sep")
  /\ IF curTokenIs("VALUE_SEPARATOR")
     THEN nextToken
     ELSE UNCHANGED lexVars
  /\ SetTop([Top EXCEPT !.pc = "loop"])
  /\ UNCHANGED <<inVars, errors, outVars, pc>>

\* Whether the parser's next step calls nextToken.
NeedsToken ==
  CASE pc \in {"new1", "new2"} -> TRUE
    [] pc = "parsing" /\ Top.fn = "parseObject" ->
         CASE Top.pc = "begin" -> curTokenIs("BEGIN_OBJECT")
           [] Top.pc = "loop"  -> /\ ~curTokenIs("END_OBJECT")
                                  /\ ~curTokenIs("EOF")
                                  /\ parseObjectKey.key # <<>>
                                  /\ peekToken.Type = "NAME_SEPARATOR"
           [] Top.pc = "colon" -> TRUE
           [] Top.pc = "got"   -> ~Top.err
           [] Top.pc = "sep"   -> /\ curTokenIs("VALUE_SEPARATOR")
                                  /\ peekToken.Type # "END_OBJECT"
           [] OTHER -> FALSE
    [] pc = "parsing" /\ Top.fn = "parseArray" ->
         CASE Top.pc = "begin" -> curTokenIs("BEGIN_ARRAY")
           [] Top.pc = "got"   -> ~Top.err
           [] Top.pc = "sep"   -> curTokenIs("VALUE_SEPARATOR")
           [] OTHER -> FALSE
    [] OTHER -> FALSE

\* The next piece of the input is fixed when the parser's next step lexes
\* beyond the part that is, and, for the part no step ever reads, once Parse
\* has returned; the input ends there, or goes on with a chunk.
Reveal ==
  /\ ~closed
  /\ \/ NeedsToken /\ ~CanLex
     \/ pc = "parsed"
  /\ \/ closed' = TRUE /\ UNCHANGED <<input, nChunks>>
     \/ /\ nChunks < MaxChunks
        /\ \E c \in (IF pc = "parsed" THEN TailChunks ELSE Chunks) :
             input' = input \o c
        /\ nChunks' = nChunks + 1
        /\ UNCHANGED closed
  /\ UNCHANGED <<argOrder, lexVars, errors, stack, pc, outVars>>

(******************************* linter ***********************************)
Indent2 == <<" ", " ">>

\* The orders in which `for k, v := range obj` may visit a map's keys: Go
\* leaves the order open, and it differs from one run to the next.
RangeOrders(m) ==
  LET n == Cardinality(DOMAIN m)
  IN  {o \in [1..n -> DOMAIN m] : \A i, j \in 1..n : i # j => o[i] # o[j]}

\* formatJSON, formatObject and formatArray give the set of strings the call
\* may return.
RECURSIVE formatJSON(_, _)
RECURSIVE formatMembers(_, _, _, _)
RECURSIVE formatElements(_, _, _)

\* the loop of formatObject from the i-th key of the order o on
formatMembers(m, o, i, indent) ==
  IF i > Len(o) THEN {<<>>}
  ELSE {indent \o Indent2 \o <<QUOTE>> \o o[i] \o <<QUOTE, ":", " ">> \o body
          \o (IF i < Len(o) THEN <<",">> ELSE <<>>) \o <<NEWLINE>> \o rest :
        body \in formatJSON(m[o[i]], indent \o Indent2),
        rest \in formatMembers(m, o, i + 1, indent)}

formatObject(obj, indent) ==
  {<<"{", NEWLINE>> \o members \o indent \o <<"}">> :
   members \in UNION {formatMembers(obj.m, o, 1, indent) : o \in RangeOrders(obj.m)}}

\* the loop of formatArray from the i-th element on
formatElements(array, i, indent) ==
  IF i > Len(array) THEN {<<>>}
  ELSE {indent \o Indent2 \o body
          \o (IF i < Len(array) THEN <<",">> ELSE <<>>) \o <<NEWLINE>> \o rest :
        body \in formatJSON(array[i], indent \o Indent2),
        rest \in formatElements(array, i + 1, indent)}

formatArray(arr, indent) ==
  {<<"[", NEWLINE>> \o elements \o indent \o <<"]">> :
   elements \in formatElements(arr.elems, 1, indent)}

formatJSON(v, indent) ==
  CASE v.t = "object" -> formatObject(v, indent)
    [] v.t = "array"  -> formatArray(v, indent)
    [] v.t = "string" -> {<<QUOTE>> \o v.s \o <<QUOTE>>}
    [] v.t = "null"   -> {<<"n", "u", "l", "l">>}
    [] v.t = "bool"   -> {IF v.b THEN <<"t", "r", "u", "e">>
                                 ELSE <<"f", "a", "l", "s", "e">>}
    [] v.t = "int"    -> {FormatInt(v)}
    [] v.t = "float"  -> {FormatFloat(v)}

\* Lint, lines 31-37, once its call of Parse has returned
Lint ==
  /\ pc = "parsed"
  /\ closed
  /\ IF Len(errors) > 0
     THEN lintOut' = <<>> /\ lintErr' = TRUE
     ELSE lintOut' \in formatJSON(result, <<>>) /\ lintErr' = FALSE
  /\ pc' = "linted"
  /\ UNCHANGED <<inVars, lexVars, errors, stack, result, round, first>>

\* NewJsonLinter on the string Lint returned: the lexer and the parser of a
\* second parse, of the whole of that string
Reparse ==
  /\ pc = "linted"
  /\ round = 1
  /\ ~lintErr
  /\ round' = 2
  /\ first' = [input |-> input, closed |-> closed, tree |-> result]
  /\ input' = lintOut
  /\ closed' = TRUE
  /\ l' = NewLexer(lintOut)
  /\ curToken' = ZeroToken
  /\ peekToken' = ZeroToken
  /\ errors' = <<>>
  /\ pc' = "new1"
  /\ UNCHANGED <<nChunks, argOrder, stack, result, lintOut, lintErr>>

(********************* JSON, as the claims speak of it ********************)
\* A reader of JSON text after RFC 8259, independent of the lexer and the
\* parser above: what "well-formed" and "the value written in the document"
\* mean in the claims.  A reading is [ok, end, v, dup]: whether a value
\* starts at index i, the index after it, the value, and whether an object
\* in it repeats a key (the last occurrence is kept).
RefFail == [ok |-> FALSE, end |-> 0, v |-> NullV, dup |-> FALSE]

RefOk(e, v, d) == [ok |-> TRUE, end |-> e, v |-> v, dup |-> d]

RECURSIVE RefWs(_, _)
RefWs(s, i) ==
  IF i <= Len(s) /\ s[i] \in {" ", "\t", NEWLINE, "\r"} THEN RefWs(s, i + 1) ELSE i

At(s, i) == IF i <= Len(s) THEN s[i] ELSE "END"

HexChars == Digits \cup {"a", "b", "c", "d", "e", "f", "A", "B", "C", "D", "E", "F"}

\* the index of the quote that closes the string whose text starts at i; 0
\* when there is none or the text is not allowed
RECURSIVE RefStringEnd(_, _)
RefStringEnd(s, i) ==
  CASE i > Len(s) -> 0
    [] s[i] = QUOTE -> i
    [] s[i] = BACKSLASH ->
         IF At(s, i + 1) \in {QUOTE, BACKSLASH, "/", "b", "f", "n", "r", "t"}
         THEN RefStringEnd(s, i + 2)
         ELSE IF At(s, i + 1) = "u" /\ \A k \in 2..5 : At(s, i + k) \in HexChars
         THEN RefStringEnd(s, i + 6)
         ELSE 0
    [] s[i] \in {NUL, NEWLINE, "\t", "\r"} -> 0
    [] OTHER -> RefStringEnd(s, i + 1)

RECURSIVE RefDigitsEnd(_, _)
RefDigitsEnd(s, i) == IF At(s, i) \in Digits THEN RefDigitsEnd(s, i + 1) ELSE i

\* the index after the number that starts at i; 0 when there is none
RefNumberEnd(s, i) ==
  LET a == IF At(s, i) = "-" THEN i + 1 ELSE i
      b == IF At(s, a) = "0" THEN a + 1 ELSE RefDigitsEnd(s, a)
      c == IF At(s, b) = "." THEN RefDigitsEnd(s, b + 1) ELSE b
      x == IF At(s, c) \in {"e", "E"}
           THEN (IF At(s, c + 1) \in {"+", "-"} THEN c + 2 ELSE c + 1)
           ELSE c
      d == IF x = c THEN c ELSE RefDigitsEnd(s, x)
  IN  IF b = a \/ (At(s, b) = "." /\ c = b + 1) \/ (x # c /\ d = x) THEN 0 ELSE d

RefNumber(s, i) ==
  LET e   == RefNumberEnd(s, i)
      txt == SubSeq(s, i, e - 1)
  IN  IF e = 0 THEN RefFail
      ELSE IF \E k \in 1..Len(txt) : txt[k] \in {".", "e", "E"}
      THEN (IF ParseFloat(txt).ok THEN RefOk(e, FloatV(ParseFloat(txt)), FALSE) ELSE RefFail)
      ELSE (IF ParseInt(txt).ok THEN RefOk(e, IntV(ParseInt(txt)), FALSE) ELSE RefFail)

RefWord(s, i, w, v) ==
  IF i + Len(w) - 1 <= Len(s) /\ SubSeq(s, i, i + Len(w) - 1) = w
  THEN RefOk(i + Len(w), v, FALSE)
  ELSE RefFail

RECURSIVE RefValue(_, _)
RECURSIVE RefMembers(_, _, _, _)
RECURSIVE RefElements(_, _, _, _)

\* the members of an object from the key at i on; obj holds those before
RefMembers(s, i, obj, dup) ==
  LET q == IF At(s, i) = QUOTE THEN RefStringEnd(s, i + 1) ELSE 0
      c == RefWs(s, q + 1)
      r == RefValue(s, RefWs(s, c + 1))
      n == RefWs(s, r.end)
      key == SubSeq(s, i + 1, q - 1)
      now == MapStore(obj, key, r.v)
      d   == dup \/ r.dup \/ key \in DOMAIN obj.m
  IN  IF q = 0 \/ At(s, c) # ":" THEN RefFail
      ELSE IF ~r.ok THEN RefFail
      ELSE IF At(s, n) = "}" THEN RefOk(n + 1, now, d)
      ELSE IF At(s, n) = "," THEN RefMembers(s, RefWs(s, n + 1), now, d)
      ELSE RefFail

\* the elements of an array from the value at i on; arr holds those before
RefElements(s, i, arr, dup) ==
  LET r == RefValue(s, i)
      n == RefWs(s, r.end)
      now == [arr EXCEPT !.elems = Append(arr.elems, r.v)]
      d   == dup \/ r.dup
  IN  IF ~r.ok THEN RefFail
      ELSE IF At(s, n) = "]" THEN RefOk(n + 1, now, d)
      ELSE IF At(s, n) = "," THEN RefElements(s, RefWs(s, n + 1), now, d)
      ELSE RefFail

RefValue(s, i) ==
  CASE At(s, i) = "{" ->
         IF At(s, RefWs(s, i + 1)) = "}"
         THEN RefOk(RefWs(s, i + 1) + 1, EmptyObject, FALSE)
         ELSE RefMembers(s, RefWs(s, i + 1), EmptyObject, FALSE)
    [] At(s, i) = "[" ->
         IF At(s, RefWs(s, i + 1)) = "]"
         THEN RefOk(RefWs(s, i + 1) + 1, EmptyArray, FALSE)
         ELSE RefElements(s, RefWs(s, i + 1), EmptyArray, FALSE)
    [] At(s, i) = QUOTE ->
         LET q == RefStringEnd(s, i + 1)
         IN  IF q = 0 THEN RefFail ELSE RefOk(q + 1, StringV(SubSeq(s, i + 1, q - 1)), FALSE)
    [] At(s, i) = "-" \/ At(s, i) \in Digits -> RefNumber(s, i)
    [] At(s, i) = "t" -> RefWord(s, i, <<"t", "r", "u", "e">>, BoolV(TRUE))
    [] At(s, i) = "f" -> RefWord(s, i, <<"f", "a", "l", "s", "e">>, BoolV(FALSE))
    [] At(s, i) = "n" -> RefWord(s, i, <<"n", "u", "l", "l">>, NullV)
    [] OTHER -> RefFail

\* the reading of a whole text that is one JSON object
RefDoc(s) ==
  LET i == RefWs(s, 1)
      r == RefValue(s, i)
  IN  IF At(s, i) = "{" /\ r.ok /\ RefWs(s, r.end) = Len(s) + 1 THEN r ELSE RefFail

\* A tree as reflect.DeepEqual sees it: without the history ord.
RECURSIVE Tree(_)
Tree(v) ==
  CASE v.t = "object" -> [t |-> "object", isnil |-> v.isnil,
                          m |-> [k \in DOMAIN v.m |-> Tree(v.m[k])]]
    [] v.t = "array"  -> [t |-> "array", isnil |-> v.isnil,
                          elems |-> [i \in DOMAIN v.elems |-> Tree(v.elems[i])]]
    [] OTHER -> v

IsNilContainer(v) == v.t \in {"object", "array"} /\ v.isnil

\* v is a nil container or holds one, at any depth
RECURSIVE HoldsNil(_)
HoldsNil(v) ==
  CASE v.t = "object" -> v.isnil \/ \E k \in DOMAIN v.m : HoldsNil(v.m[k])
    [] v.t = "array"  -> v.isnil \/ \E i \in DOMAIN v.elems : HoldsNil(v.elems[i])
    [] OTHER -> FALSE

\* formatJSON with every object's members in the order of insertion
RECURSIVE formatInOrder(_, _)
RECURSIVE membersInOrder(_, _, _)
RECURSIVE elementsInOrder(_, _, _)

membersInOrder(obj, i, indent) ==
  IF i > Len(obj.ord) THEN <<>>
  ELSE indent \o Indent2 \o <<QUOTE>> \o obj.ord[i] \o <<QUOTE, ":", " ">>
         \o formatInOrder(obj.m[obj.ord[i]], indent \o Indent2)
         \o (IF i < Len(obj.ord) THEN <<",">> ELSE <<>>) \o <<NEWLINE>>
         \o membersInOrder(obj, i + 1, indent)

elementsInOrder(array, i, indent) ==
  IF i > Len(array) THEN <<>>
  ELSE indent \o Indent2 \o formatInOrder(array[i], indent \o Indent2)
         \o (IF i < Len(array) THEN <<",">> ELSE <<>>) \o <<NEWLINE>>
         \o elementsInOrder(array, i + 1, indent)

formatInOrder(v, indent) ==
  CASE v.t = "object" -> <<"{", NEWLINE>> \o membersInOrder(v, 1, indent) \o indent \o <<"}">>
    [] v.t = "array"  -> <<"[", NEWLINE>> \o elementsInOrder(v.elems, 1, indent) \o indent \o <<"]">>
    [] OTHER -> CHOOSE x \in formatJSON(v, indent) : TRUE

Next ==
  \/ NewParser
  \/ Parse
  \/ ObjBegin
  \/ ObjLoop
  \/ ObjColon
  \/ ObjValue
  \/ ObjGot
  \/ ObjSep
  \/ ArrBegin
  \/ ArrLoop
  \/ ArrGot
  \/ ArrSep
  \/ Reveal
  \/ Lint
  \/ Reparse

Spec == Init /\ [][Next]_vars

(******************************* claims ***********************************)
\* Parse has returned.
Parsed == pc \in {"parsed", "linted"}

\* A step in which NextToken returned a token: the new lookahead.
TokenReturned == input' = input /\ round' = round /\ l' # l

\* The call on top of the stack has got a nil container from the
\* parseObject or parseArray that its parseValue called.
NestedAborted ==
  /\ pc = "parsing"
  /\ Top.pc = "got"
  /\ ~Top.err
  /\ IsNilContainer(Top.value)

\* The step returns nil from the call on top of the stack.
ReturnsNil ==
  /\ Len(stack') = Len(stack) - 1
  /\ IF stack' = <<>>
     THEN result' = NilObject
     ELSE IsNilContainer(stack'[Len(stack')].value)

\* C1: after Parse has returned, a diagnostic list that is not empty
\* implies that the tree returned is nil.
C1_ErrorsImplyNil == Parsed => (Len(errors) > 0 => result = NilObject)

\* C2: when a nested parseObject or parseArray has returned nil, the next
\* step of the enclosing call returns nil too (and so stores no entry).
C2_AbortPropagates == [][(NestedAborted /\ stack' # stack) => ReturnsNil]_vars

\* C3: when Parse has returned nil, at least one diagnostic is recorded.
C3_NilImpliesDiagnostic == (Parsed /\ result = NilObject) => Len(errors) > 0

\* C4: a tree returned with no diagnostic holds no nil object and no nil
\* array, at any depth.
C4_SuccessTreeHasNoNil ==
  (Parsed /\ result # NilObject /\ Len(errors) = 0) => ~HoldsNil(result)

\* C5: every token NextToken returns carries the line and the column of its
\* first character: those of the lexer once the white space is skipped.
C5_TokenAtFirstChar ==
  [][TokenReturned =>
       LET s == skipWhitespace(input, l)
       IN  peekToken'.Line = s.line /\ peekToken'.Column = s.column]_vars

\* the index of the first quote at or after i that no backslash escapes;
\* Len(s) + 1 when there is none
RECURSIVE UnescapedQuote(_, _)
UnescapedQuote(s, i) ==
  CASE i > Len(s) -> Len(s) + 1
    [] s[i] = QUOTE -> i
    [] s[i] = BACKSLASH -> UnescapedQuote(s, i + 2)
    [] OTHER -> UnescapedQuote(s, i + 1)

\* C6: the token returned at a double quote is a STRING whose text is the
\* characters from after that quote up to the next unescaped quote, or to
\* the end of the input.
C6_StringEndsAtUnescapedQuote ==
  [][(TokenReturned /\ skipWhitespace(input, l).ch = QUOTE) =>
       LET from == skipWhitespace(input, l).position + 2
       IN  /\ peekToken'.Type = "STRING"
           /\ peekToken'.Value = SubSeq(input, from, UnescapedQuote(input, from) - 1)]_vars

\* C7: for a well-formed JSON object document without duplicate keys, the
\* parse of Lint's output gives a tree equal to the parse of the document.
C7_RoundTrip ==
  (round = 2 /\ Parsed /\ first.closed /\ RefDoc(first.input).ok /\ ~RefDoc(first.input).dup)
    => Tree(result) = Tree(first.tree)

\* C8: the string Lint returns has the members of every object in the order
\* in which the parser inserted their keys.
C8_LintInInsertionOrder ==
  (pc = "linted" /\ ~lintErr) => lintOut = formatInOrder(result, <<>>)

NoBackslash(s) == \A i \in 1..Len(s) : s[i] # BACKSLASH

\* C9: for a well-formed JSON object document without a backslash and with
\* its numbers in the 64-bit range, Parse returns a tree, with no
\* diagnostic, that maps each key to the value written in the document.
C9_WellFormedParses ==
  (Parsed /\ closed /\ RefDoc(input).ok /\ NoBackslash(input))
    => /\ Len(errors) = 0
       /\ result # NilObject
       /\ Tree(result) = Tree(RefDoc(input).v)

\* C10: for an input that is not a well-formed JSON document with one
\* object at top level, Lint returns an error and the empty string.
C10_LintRejectsMalformed ==
  (pc = "linted" /\ closed /\ ~RefDoc(input).ok) => (lintErr /\ lintOut = <<>>)

\* The line and the column of the character at index i of s, counted from
\* 1, a newline ending its line.
LineOf(s, i) == 1 + Cardinality({j \in 1..(i - 1) : s[j] = NEWLINE})

ColumnOf(s, i) ==
  LET nl == {j \in 1..(i - 1) : s[j] = NEWLINE}
  IN  i - (IF nl = {} THEN 0 ELSE CHOOSE j \in nl : \A k \in nl : k <= j)

\* The top-level parseObject has stored a member, no diagnostic is recorded,
\* and the tokens are a comma and a closing brace.
TrailingComma ==
  /\ pc = "parsing"
  /\ Len(stack) = 1
  /\ Top.pc = "sep"
  /\ Len(errors) = 0
  /\ curTokenIs("VALUE_SEPARATOR")
  /\ peekToken.Type = "END_OBJECT"

\* C11: at a trailing comma of the top-level object Parse returns nil with
\* exactly one diagnostic, "No ',' before '}'", whose line and column are
\* those of a comma of the input that a closing brace follows.
C11_TrailingCommaAborts ==
  [][TrailingComma =>
       /\ pc' = "parsed"
       /\ result' = NilObject
       /\ Len(errors') = 1
       /\ errors'[1].msg = "No ',' before '}'"
       /\ \E i \in 1..Len(input) :
            /\ input[i] = ","
            /\ At(input, RefWs(input, i + 1)) = "}"
            /\ errors'[1].line = LineOf(input, i)
            /\ errors'[1].column = ColumnOf(input, i)]_vars

\* Parse has returned nil at a trailing comma of the top-level object.
C11_Witness ==
  /\ pc = "parsed"
  /\ result = NilObject
  /\ Len(errors) = 1
  /\ errors[1].msg = "No ',' before '}'"
  /\ curTokenIs("VALUE_SEPARATOR")
  /\ peekToken.Type = "END_OBJECT"

\* The top-level parseObject starts at a token that is not a begin-object.
NotAnObject ==
  /\ pc = "parsing"
  /\ Len(stack) = 1
  /\ Top.pc = "begin"
  /\ ~curTokenIs("BEGIN_OBJECT")

\* C12: when the first token is not a begin-object, Parse returns nil with
\* exactly one diagnostic, "expected '{'", built from that token's line,
\* column and text, and the tokens are left as they were; for the empty
\* input that token is the EOF at line 1, column 1.
C12_TopLevelMustBeObject ==
  [][NotAnObject =>
       /\ pc' = "parsed"
       /\ result' = NilObject
       /\ errors' = <<[msg |-> "expected '{'", line |-> curToken.Line,
                       column |-> curToken.Column, got |-> curToken.Value]>>
       /\ UNCHANGED lexVars
       /\ input = <<>> =>
            /\ curToken.Type = "EOF"
            /\ errors'[1].line = 1
            /\ errors'[1].column = 1
            /\ errors'[1].got = <<>>]_vars

\* Parse has returned nil for an input that does not start with a brace.
C12_Witness ==
  /\ pc = "parsed"
  /\ result = NilObject
  /\ Len(errors) = 1
  /\ errors[1].msg = "expected '{'"
  /\ ~curTokenIs("BEGIN_OBJECT")

\* the index after the run of letters and underscores that starts at i
RECURSIVE LetterRunEnd(_, _)
LetterRunEnd(s, i) ==
  IF i <= Len(s) /\ s[i] \in (LowerCase \cup UpperCase \cup {"_"})
  THEN LetterRunEnd(s, i + 1)
  ELSE i

\* The kinds of token with which a value starts.
ValueKinds == {"STRING", "NUMBER", "TRUE", "FALSE", "NULL", "BEGIN_OBJECT", "BEGIN_ARRAY"}

\* The top-level parseObject is about to parse the value of a member, and
\* no diagnostic is recorded.
AtTopLevelValue ==
  /\ pc = "parsing"
  /\ Len(stack) = 1
  /\ Top.pc = "value"
  /\ Len(errors) = 0

\* C13: the token returned at a letter or underscore is the whole run of
\* letters and underscores, of kind TRUE, FALSE or NULL when its text is
\* exactly true, false or null and ILLEGAL otherwise; and a token that starts
\* no value, in the value position of a member of the top-level object with
\* no diagnostic so far, adds exactly one diagnostic, "unexpected token",
\* with that token's text, line and column, and then Parse returns nil
\* without another.
C13_UnexpectedValueToken ==
  [][/\ (TokenReturned /\ isLetter(skipWhitespace(input, l).ch)) =>
          LET from == skipWhitespace(input, l).position + 1
              text == SubSeq(input, from, LetterRunEnd(input, from) - 1)
          IN  /\ peekToken'.Value = text
              /\ peekToken'.Type =
                   CASE text = <<"t", "r", "u", "e">> -> "TRUE"
                     [] text = <<"f", "a", "l", "s", "e">> -> "FALSE"
                     [] text = <<"n", "u", "l", "l">> -> "NULL"
                     [] OTHER -> "ILLEGAL"
     /\ (AtTopLevelValue /\ curToken.Type \notin ValueKinds) =>
          /\ errors' = <<[msg |-> "unexpected token", line |-> curToken.Line,
                          column |-> curToken.Column, got |-> curToken.Value]>>
          /\ pc' = "parsing"
          /\ Len(stack') = 1
          /\ stack'[1].pc = "got"
          /\ stack'[1].err
     /\ (pc = "parsing" /\ Len(stack) = 1 /\ Top.pc = "got" /\ Top.err) =>
          /\ pc' = "parsed"
          /\ result' = NilObject
          /\ errors' = errors]_vars

\* Parse has returned nil at the misspelt keyword False in the value position
\* of a member of the top-level object.
C13_Witness ==
  /\ pc = "parsed"
  /\ result = NilObject
  /\ Len(errors) = 1
  /\ errors[1].msg = "unexpected token"
  /\ errors[1].got = <<"F", "a", "l", "s", "e">>
  /\ curToken.Type = "ILLEGAL"
  /\ curToken.Value = errors[1].got

\* parseValue is about to be called on a NUMBER token whose text parseNumber
\* cannot convert.
AtBadNumber ==
  /\ pc = "parsing"
  /\ \/ Top.fn = "parseObject" /\ Top.pc = "value"
     \/ Top.fn = "parseArray" /\ Top.pc = "loop"
  /\ curTokenIs("NUMBER")
  /\ parseNumber.errs # <<>>

\* C14: when parseNumber cannot convert the NUMBER token's text, parseValue
\* records the "could not parse" diagnostic and returns an error to its
\* caller.
C14_BadNumberIsAnError ==
  [][AtBadNumber =>
       /\ Len(errors') = Len(errors) + 1
       /\ errors'[Len(errors')].msg \in {"could not parse as float",
                                         "could not parse as integer"}
       /\ stack'[Len(stack')].pc = "got"
       /\ stack'[Len(stack')].err]_vars

\* parseValue is about to be called on a NUMBER token.
AtNumber ==
  /\ pc = "parsing"
  /\ \/ Top.fn = "parseObject" /\ Top.pc = "value"
     \/ Top.fn = "parseArray" /\ Top.pc = "loop"
  /\ curTokenIs("NUMBER")

\* The text is an optional minus sign and digits, and the integer it writes
\* is not in [-2^63, 2^63 - 1].
BeyondInt64(text) ==
  LET neg  == text # <<>> /\ text[1] = "-"
      body == IF neg THEN Tail(text) ELSE text
      mag  == StripLeadingZeros(body)
  IN  /\ body # <<>>
      /\ \A i \in 1..Len(body) : body[i] \in Digits
      /\ \/ Len(mag) > 19
         \/ /\ Len(mag) = 19
            /\ ~DigitsLeqSameLen(mag, IF neg THEN MaxInt64Digits1 ELSE MaxInt64Digits)

InArrayAtEOF ==
  /\ pc = "parsing"
  /\ Top.fn = "parseArray"
  /\ Top.pc \in {"loop", "got"}
  /\ curTokenIs("EOF")

\* C16: when the end of the input is reached inside an array, parseArray
\* adds no diagnostic, and it returns nil.
C16_UnclosedArrayIsSilent ==
  [][InArrayAtEOF =>
       /\ errors' = errors
       /\ Top.pc = "got" => ReturnsNil]_vars

\* A step of the parser: no step that fixes more of the input.
SameInput == input' = input /\ closed' = closed

\* A parseArray has added an element, and the tokens are a comma and a
\* closing bracket.
ArrayTrailingComma ==
  /\ pc = "parsing"
  /\ Top.fn = "parseArray"
  /\ Top.pc = "sep"
  /\ curTokenIs("VALUE_SEPARATOR")
  /\ peekToken.Type = "END_ARRAY"

\* C17: at a trailing comma parseArray adds no diagnostic and goes on to
\* the closing bracket with the elements it has, as it does when the bracket
\* follows the last element; at the closing bracket it returns these
\* elements, with no diagnostic.
C17_ArrayTrailingComma ==
  [][/\ (ArrayTrailingComma /\ SameInput) =>
          /\ errors' = errors
          /\ Len(stack') = Len(stack)
          /\ stack'[Len(stack')] = [Top EXCEPT !.pc = "loop"]
          /\ curToken' = peekToken
     /\ (pc = "parsing" /\ Top.fn = "parseArray" /\ Top.pc = "sep"
           /\ curTokenIs("END_ARRAY")) =>
          /\ errors' = errors
          /\ stack' = [stack EXCEPT ![Len(stack)].pc = "loop"]
          /\ UNCHANGED lexVars
     /\ (pc = "parsing" /\ Top.fn = "parseArray" /\ Top.pc = "loop"
           /\ curTokenIs("END_ARRAY")) =>
          /\ errors' = errors
          /\ Len(stack') = Len(stack) - 1
          /\ stack'[Len(stack')].value = Top.array
          /\ ~stack'[Len(stack')].err
          /\ ~Top.array.isnil]_vars

\* Parse has returned, with no diagnostic, a tree with an array of one
\* element whose text has a comma before its closing bracket.
C17_Witness ==
  /\ pc = "parsed"
  /\ Len(errors) = 0
  /\ result # NilObject
  /\ \E k \in DOMAIN result.m :
       /\ result.m[k].t = "array"
       /\ ~result.m[k].isnil
       /\ Len(result.m[k].elems) = 1
  /\ \E i \in 1..Len(input) :
       input[i] = "," /\ At(input, RefWs(input, i + 1)) = "]"

\* A parseObject is about to store a value under a key that the object
\* already has.
AtDuplicateKey ==
  /\ pc = "parsing"
  /\ Top.fn = "parseObject"
  /\ Top.pc = "got"
  /\ ~Top.err
  /\ Top.key \in DOMAIN Top.object.m

\* C18: storing a value under a key the object already has leaves the
\* object with the same keys, the new value under that key and the other
\* values as they were, and adds no diagnostic.
C18_LastDuplicateWins ==
  [][(AtDuplicateKey /\ SameInput) =>
       LET before == Top.object.m
           after  == stack'[Len(stack')].object.m
       IN  /\ Len(stack') = Len(stack)
           /\ DOMAIN after = DOMAIN before
           /\ after[Top.key] = Top.value
           /\ \A k \in DOMAIN before : k # Top.key => after[k] = before[k]
           /\ errors' = errors]_vars

\* Parse has returned, with no diagnostic, the tree of a whole document in
\* which the key a is written twice, first with the value 1 and last with
\* another value, which is the one the tree has.
C18_Witness ==
  /\ pc = "parsed"
  /\ closed
  /\ Len(errors) = 0
  /\ result # NilObject
  /\ RefDoc(input).ok
  /\ RefDoc(input).dup
  /\ SubSeq(input, 1, 7) = <<"{", QUOTE, "a", QUOTE, ":", "1", ",">>
  /\ DOMAIN result.m = {<<"a">>}
  /\ result.m[<<"a">>].t # "int"

\* The parser is at work: NewParser or Parse has not returned.
AtWork == pc \in {"new1", "new2", "ready", "parsing"}

\* How many steps that read no token the parser can at most take from here
\* before it reads one or Parse returns.
Rank ==
  CASE pc = "ready" -> 7
    [] pc = "parsing" ->
         CASE Top.pc \in {"value", "sep"} -> 6
           [] Top.pc = "loop" -> 5
           [] Top.pc = "got" /\ Top.err -> 4
           [] Top.pc = "begin" -> 3
           [] OTHER -> 2
    [] OTHER -> 0

KnownChars ==
  {"{", "}", "[", "]", ":", ",", QUOTE, NUL, "-"}
    \cup Digits \cup LowerCase \cup UpperCase \cup {"_"}

\* C20: the token NextToken returns is of a known kind other than
\* WHITESPACE; the slice a string, a number or an identifier is taken from
\* lies within the input (start <= end <= length) and is the token's text;
\* and at a character the lexer does not know the token is an ILLEGAL one
\* whose text is that character.
C20_LexerIsTotal ==
  [][TokenReturned =>
       LET s  == skipWhitespace(input, l)
           lo == IF s.ch = QUOTE THEN s.position + 1 ELSE s.position
           hi == CASE s.ch = QUOTE -> scanString(input, s).position
                   [] isDigit(s.ch) \/ s.ch = "-" -> scanNumber(input, s).position
                   [] OTHER -> scanIdentifier(input, s).position
       IN  /\ peekToken'.Type \in TokenTypes \ {"WHITESPACE"}
           /\ (s.ch = QUOTE \/ isDigit(s.ch) \/ s.ch = "-" \/ isLetter(s.ch)) =>
                /\ 0 <= lo
                /\ lo <= hi
                /\ hi <= Len(input)
                /\ peekToken'.Value = [i \in 1..(hi - lo) |-> input[lo + i]]
           /\ s.ch \notin KnownChars =>
                /\ peekToken'.Type = "ILLEGAL"
                /\ peekToken'.Value = <<s.ch>>]_vars

\* The lexer has returned a token, and the last one it returned (the
\* lookahead) is an EOF token.
AfterEOF == pc # "new1" /\ peekToken.Type = "EOF"

\* C21: NextToken returns an EOF token only when every byte of the input
\* is consumed, and with empty text; once it has returned an EOF token,
\* every later token is an EOF token with empty text; the read offset never
\* decreases.
C21_EOFIsAbsorbing ==
  [][TokenReturned =>
       /\ peekToken'.Type = "EOF" =>
            /\ skipWhitespace(input, l).position >= Len(input)
            /\ peekToken'.Value = <<>>
       /\ AfterEOF =>
            /\ peekToken'.Type = "EOF"
            /\ peekToken'.Value = <<>>
       /\ l'.readPosition >= l.readPosition
       /\ l'.position >= l.position]_vars

\* The lexer's output stream read from the start of inp until the lexer is
\* target: whether target is met, after how many tokens less one (k), and
\* the last two tokens (the k-th and the (k+1)-th).  at is the lexer after n
\* tokens, of which prev and last are the last two; r is the next call.
RECURSIVE StreamUpTo(_, _, _, _, _, _, _)
StreamNext(inp, order, target, r, last, n) ==
  StreamUpTo(inp, order, target, r.l, last, r.tok, n + 1)

StreamUpTo(inp, order, target, at, prev, last, n) ==
  IF at = target
  THEN [found |-> TRUE, k |-> n - 1, cur |-> prev, peek |-> last]
  ELSE IF at.position >= target.position
  THEN [found |-> FALSE, k |-> 0, cur |-> prev, peek |-> last]
  ELSE StreamNext(inp, order, target, NextToken(inp, at, order), last, n)

\* Where the parser's lexer is in the stream of the input's tokens.
Lookahead ==
  StreamUpTo(input, argOrder, l, NewLexer(input), ZeroToken, ZeroToken, 0)

\* The parser's tokens are two tokens in a row of the input's stream, and
\* its lexer is the lexer after the second.
InStream(s) ==
  /\ s.found
  /\ s.k >= 1
  /\ curToken = s.cur
  /\ peekToken = s.peek

\* NewParser has returned.
ParserMade == pc \notin {"new1", "new2"}

\* NewParser or Parse has just returned to its caller.
Returned == pc \in {"ready", "parsed"}

\* The step moves the lexer and both tokens on by exactly one token.
Advanced ==
  /\ curToken' = peekToken
  /\ peekToken' = NextToken(input, l, argOrder).tok
  /\ l' = NextToken(input, l, argOrder).l
  /\ l'.position > l.position

\* C22: when NewParser or Parse has returned, the current token and the
\* lookahead token are the k-th and the (k+1)-th tokens of the stream the
\* lexer gives for the input, for a k of at least 1, and the lexer stands
\* right after the second; and from the return of NewParser on a step either
\* leaves the lexer and both tokens as they are or makes the lookahead token
\* the current one and the lexer's next token the lookahead, so k never
\* decreases and no token is skipped or read twice.
C22_OneTokenLookahead ==
  /\ [](Returned => InStream(Lookahead))
  /\ [][(ParserMade /\ round' = round) =>
          (UNCHANGED lexVars \/ Advanced)]_vars

\* Parse has returned with the sixth token of the input as current token.
C22_Witness ==
  /\ pc = "parsed"
  /\ Lookahead.found
  /\ Lookahead.k = 6
  /\ curToken = Lookahead.cur
  /\ curToken.Type = "END_OBJECT"

====
